---- MODULE Spec2Model ----
(***************************************************************************)
(* Model of commit_watcher.py: the polling loop monitor_feed, the cold     *)
(* start initialize_last_commits, the cursor file (load_last_commits,      *)
(* save_last_commits), the branch blacklist, request_with_retry and the    *)
(* shutdown signal handler, together with the two collaborators the loop   *)
(* talks to (the commit source and the webhook sink).                      *)
(*                                                                         *)
(* Strings of the program are tuples of one-character strings, so that     *)
(* splitting, stripping and glob matching are computed, not assumed.       *)
(***************************************************************************)
EXTENDS Integers, Sequences, FiniteSets, TLC

VARIABLES
  remote,           \* source API: repository -> branch -> commit ids, newest first
  file,             \* last_commits.json
  BRANCH_BLACKLIST, \* environment variable, read once per process
  pc,               \* where the process is
  shutdown_event,   \* threading.Event
  last_commits,     \* the dict of the running function
  updated,          \* initialize_last_commits: updated
  ri,               \* position in REPOSITORIES
  branches,         \* result of get_branches
  bi,               \* position in branches
  commits,          \* result of get_commits_for_branch
  new_commits,      \* the delta
  response,         \* what request_with_retry gave send_aggregated_to_discord
  sleep_left,       \* seconds of time.sleep still to pass
  restarts,         \* how often the process was started again
  acked,            \* observer: commit ids in messages the sink acknowledged
  twice,            \* observer: commit ids acknowledged more than once
  window,           \* observer: a crash hit between a 204 and the end of its save
  cold_quiet,       \* observer: repositories cold at start and unchanged since
  init_clean,       \* observer: those whose source calls all succeeded so far
  high,             \* observer: the largest cursor id the file has held, per branch
  call              \* one call of request_with_retry: transport, attempts, sleeps

\* ------------------------------------------------------------------ bounds

MaxChanges == 2     \* pushes, force-pushes and new branches, over all repositories
MaxRestarts == 1    \* process restarts
SleepTicks == 1     \* clock ticks in one POLL_INTERVAL_SECONDS
MaxDeltaId == 7     \* commit ids of the fetched lists tried on the delta alone
MaxDeltaLen == 5    \* length of those lists
MaxStoredId == 2    \* commit ids in the cursor files tried on the load alone

\* --------------------------------------------------------- program constants

STATUS_OK == 200
STATUS_NO_CONTENT == 204
MAX_RETRIES == 3

\* ------------------------------------------------------------- strings

Reverse(s) == [i \in 1..Len(s) |-> s[Len(s) + 1 - i]]

Range(s) == {s[i] : i \in 1..Len(s)}

\* str.find: the first position of character c in s, 0 when absent
RECURSIVE Find(_, _, _)
Find(s, c, i) ==
  IF i > Len(s) THEN 0
  ELSE IF s[i] = c THEN i
  ELSE Find(s, c, i + 1)

\* str.split(sep) for a one-character separator
RECURSIVE Split(_, _)
Split(s, sep) ==
  LET k == Find(s, sep, 1)
  IN IF k = 0 THEN <<s>>
     ELSE <<SubSeq(s, 1, k - 1)>> \o Split(SubSeq(s, k + 1, Len(s)), sep)

\* str.strip() for blanks
RECURSIVE Strip(_)
Strip(s) ==
  IF s = <<>> THEN s
  ELSE IF s[1] = " " THEN Strip(Tail(s))
  ELSE IF s[Len(s)] = " " THEN Strip(SubSeq(s, 1, Len(s) - 1))
  ELSE s

\* dict: d[k] = v
Put(d, k, v) == [x \in DOMAIN d \cup {k} |-> IF x = k THEN v ELSE d[x]]

EmptyDict == [x \in {} |-> 0]

\* dict.get(k, [])
GetList(d, k) == IF k \in DOMAIN d THEN d[k] ELSE <<>>

\* ------------------------------------------------------------- blacklist

\* fnmatch.translate: the position of the "]" that closes the class opened
\* just before position i, or 0 when the "[" stays a literal
RECURSIVE ClassScan(_, _)
ClassScan(pat, j) ==
  IF j > Len(pat) THEN 0
  ELSE IF pat[j] = "]" THEN j
  ELSE ClassScan(pat, j + 1)

ClassEnd(pat, i) ==
  LET j1 == IF i <= Len(pat) /\ pat[i] = "!" THEN i + 1 ELSE i
      j2 == IF j1 <= Len(pat) /\ pat[j1] = "]" THEN j1 + 1 ELSE j1
  IN ClassScan(pat, j2)

\* fnmatch.fnmatch(name, pat) on POSIX: "*", "?", "[seq]", "[!seq]", anything
\* else literally; the whole name has to match
RECURSIVE fnmatch(_, _)
fnmatch(name, pat) ==
  IF pat = <<>> THEN name = <<>>
  ELSE IF pat[1] = "*" THEN
    \/ fnmatch(name, Tail(pat))
    \/ name # <<>> /\ fnmatch(Tail(name), pat)
  ELSE IF pat[1] = "?" THEN
    name # <<>> /\ fnmatch(Tail(name), Tail(pat))
  ELSE IF pat[1] = "[" /\ ClassEnd(pat, 2) # 0 THEN
    LET e == ClassEnd(pat, 2)
        neg == pat[2] = "!"
        stuff == Range(SubSeq(pat, IF neg THEN 3 ELSE 2, e - 1))
    IN /\ name # <<>>
       /\ (name[1] \in stuff) # neg
       /\ fnmatch(Tail(name), SubSeq(pat, e + 1, Len(pat)))
  ELSE name # <<>> /\ name[1] = pat[1] /\ fnmatch(Tail(name), Tail(pat))

GLOBAL == <<"g", "l", "o", "b", "a", "l">>

\* the loop of parse_blacklist_patterns over the stripped entries
RECURSIVE ParseEntries(_, _)
ParseEntries(patterns, acc) ==
  IF patterns = <<>> THEN acc
  ELSE
    LET pattern == Head(patterns)
        k == Find(pattern, ":", 1)
    IN IF k # 0 THEN
         LET repo_key == SubSeq(pattern, 1, k - 1)
             branch_pattern == SubSeq(pattern, k + 1, Len(pattern))
         IN ParseEntries(Tail(patterns),
              Put(acc, repo_key, Append(GetList(acc, repo_key), branch_pattern)))
       ELSE
         ParseEntries(Tail(patterns),
           Put(acc, GLOBAL, Append(acc[GLOBAL], pattern)))

parse_blacklist_patterns(blacklist_string) ==
  LET empty == Put(EmptyDict, GLOBAL, <<>>)
  IN IF blacklist_string = <<>> THEN empty
     ELSE LET parts == Split(blacklist_string, ",")
              patterns == [i \in 1..Len(parts) |-> Strip(parts[i])]
          IN ParseEntries(patterns, empty)

AnyMatch(branch_name, pats) ==
  \E i \in 1..Len(pats) : fnmatch(branch_name, pats[i])

\* a slip: the patterns of every repository are looked at
is_branch_blacklisted_any_repo(repo_key, branch_name, blacklist_patterns) ==
  \E k \in DOMAIN blacklist_patterns :
    AnyMatch(branch_name, blacklist_patterns[k])

\* a slip: the patterns of the repository are never looked at
is_branch_blacklisted_global_only(repo_key, branch_name, blacklist_patterns) ==
  AnyMatch(branch_name, GetList(blacklist_patterns, GLOBAL))

is_branch_blacklisted(repo_key, branch_name, blacklist_patterns) ==
  \/ AnyMatch(branch_name, GetList(blacklist_patterns, GLOBAL))
  \/ AnyMatch(branch_name, GetList(blacklist_patterns, repo_key))

\* ------------------------------------------------------------- transport

INITIAL_BACKOFF_SECONDS == 1
BACKOFF_MULTIPLIER == 2

\* what one requests.request call does: it raises exc, or returns a response
\* with a status code and a body that response.json() can decode or not
Raise(e) == [exc |-> e, status_code |-> 0, json_ok |-> FALSE]
Resp(code, ok) == [exc |-> "", status_code |-> code, json_ok |-> ok]
None == [exc |-> "None", status_code |-> 0, json_ok |-> FALSE]

Retryable == {"ConnectionError", "Timeout"}

GetOutcomes ==
  {Raise("ConnectionError"), Raise("Timeout"), Raise("RequestException"),
   Resp(STATUS_OK, TRUE), Resp(STATUS_OK, FALSE), Resp(404, TRUE)}

PostOutcomes ==
  {Raise("ConnectionError"), Raise("Timeout"), Raise("RequestException"),
   Resp(STATUS_NO_CONTENT, TRUE), Resp(429, TRUE)}

\* request_with_retry, given what the transport does on each attempt:
\* the result, the number of attempts made and the sleeps between them
RECURSIVE RetryFrom(_, _, _, _)
RetryFrom(outs, attempt, backoff, slept) ==
  IF attempt >= MAX_RETRIES THEN
    [response |-> None, attempts |-> attempt, sleeps |-> slept]
  ELSE
    LET out == outs[attempt + 1]
    IN IF out.exc = "" THEN
         [response |-> out, attempts |-> attempt + 1, sleeps |-> slept]
       ELSE IF out.exc \in Retryable THEN
         IF attempt < MAX_RETRIES - 1
         THEN RetryFrom(outs, attempt + 1, backoff * BACKOFF_MULTIPLIER,
                        Append(slept, backoff))
         ELSE RetryFrom(outs, attempt + 1, backoff, slept)
       ELSE
         [response |-> None, attempts |-> attempt + 1, sleeps |-> slept]

\* a slip: every exception of the transport is retried
RECURSIVE RetryAnyFrom(_, _, _, _)
RetryAnyFrom(outs, attempt, backoff, slept) ==
  IF attempt >= MAX_RETRIES THEN
    [response |-> None, attempts |-> attempt, sleeps |-> slept]
  ELSE
    LET out == outs[attempt + 1]
    IN IF out.exc = "" THEN
         [response |-> out, attempts |-> attempt + 1, sleeps |-> slept]
       ELSE IF attempt < MAX_RETRIES - 1
         THEN RetryAnyFrom(outs, attempt + 1, backoff * BACKOFF_MULTIPLIER,
                           Append(slept, backoff))
         ELSE RetryAnyFrom(outs, attempt + 1, backoff, slept)

request_with_retry_any(outs) ==
  RetryAnyFrom(outs, 0, INITIAL_BACKOFF_SECONDS, <<>>)

request_with_retry(outs) == RetryFrom(outs, 0, INITIAL_BACKOFF_SECONDS, <<>>)

\* every result a call can have, over all behaviours of the transport
GetResults ==
  {request_with_retry(o).response : o \in [1..MAX_RETRIES -> GetOutcomes]}

PostResults ==
  {request_with_retry(o).response : o \in [1..MAX_RETRIES -> PostOutcomes]}

\* ------------------------------------------------------------- configuration

RepoA == <<"a", "/", "b">>
RepoC == <<"c", "/", "d">>

REPOSITORIES == <<RepoA, RepoC>>

RepoKeys == Range(REPOSITORIES)

Main == <<"m">>
Rel == <<"r", "1">>

\* the branches the source can have, in the order it lists them
BranchOrder == <<Main, Rel>>

BranchNames == Range(BranchOrder)

\* values of the BRANCH_BLACKLIST environment variable
BlacklistConfigs ==
  { <<"r", "*">>,
    <<"a", "/", "b", ":", "[", "r", "]", "?", ",", " ", "d">> }


\* values of BRANCH_BLACKLIST tried on the branch filter alone
BlacklistTried ==
  { <<>>,
    <<"r", "*">>,
    <<"a", "/", "b", ":", "r", "*">>,
    <<"c", "/", "d", ":", "r", "*">>,
    <<"m", ",", "c", "/", "d", ":", "r", "?">>,
    <<"a", "/", "b", ":", "[", "r", "]", "?", ",", " ", "d">>,
    <<"a", "/", "b", ":", "m", ",", "c", "/", "d", ":", "r", "1">>,
    <<"a", "/", "b", ":", "m", ",", "a", "/", "b", ":", "d">>,
    <<"g", "l", "o", "b", "a", "l", ":", "m">>,
    <<"[", "!", "m", "]", "*">>,
    <<"c", "/", "d", ":", "m", ":", "x">>,
    <<" ", "m", " ", ",", "r", "1", ",">> }

\* branch names tried on the branch filter alone
BranchesTried == { <<"m">>, <<"r", "1">>, <<"d">>, <<"m", ":", "x">>, <<"r">> }

\* ------------------------------------------------------------- source API

\* GET /repos/{owner}/{name}/branches
BranchesOf(repo_key) ==
  LET keep == {i \in 1..Len(BranchOrder) : remote[repo_key][BranchOrder[i]] # <<>>}
      RECURSIVE Pick(_)
      Pick(i) ==
        IF i > Len(BranchOrder) THEN <<>>
        ELSE IF i \in keep THEN <<BranchOrder[i]>> \o Pick(i + 1)
        ELSE Pick(i + 1)
  IN Pick(1)

\* get_branches: [] when the call gave nothing or a status other than 200
get_branches(repo_key, resp) ==
  IF resp = None THEN <<>>
  ELSE IF resp.status_code # STATUS_OK THEN <<>>
  ELSE BranchesOf(repo_key)

\* get_commits_for_branch: the same, for the commit list (newest first)
get_commits_for_branch(repo_key, branch_name, resp) ==
  IF resp = None THEN <<>>
  ELSE IF resp.status_code # STATUS_OK THEN <<>>
  ELSE remote[repo_key][branch_name]

\* response.json() raises on a body that is no JSON, outside every try
JsonRaises(resp) ==
  resp # None /\ resp.status_code = STATUS_OK /\ ~resp.json_ok

\* ------------------------------------------------------------- cursor file

\* json.dump of the dict: the keys written, and one entry per branch
JsonDump(d) ==
  [repos |-> DOMAIN d,
   entries |-> UNION {{<<r, b, d[r][b]>> : b \in DOMAIN d[r]} : r \in DOMAIN d}]

\* json.load of such a document
JsonLoad(doc) ==
  [r \in doc.repos |->
     LET bs == {e[2] : e \in {x \in doc.entries : x[1] = r}}
     IN [b \in bs |-> (CHOOSE e \in doc.entries : e[1] = r /\ e[2] = b)[3]]]

NoDoc == [repos |-> {}, entries |-> {}]

Missing == [state |-> "missing", doc |-> NoDoc]
Truncated == [state |-> "truncated", doc |-> NoDoc]
Written(d) == [state |-> "json", doc |-> JsonDump(d)]

\* a file that open() refuses with an OSError other than FileNotFoundError
Unreadable == [state |-> "unreadable", doc |-> NoDoc]

\* bytes that are no UTF-8: reading them raises UnicodeDecodeError
Undecodable == [state |-> "undecodable", doc |-> NoDoc]

\* a JSON document that is no object: "[]"
JsonArray == [state |-> "array", doc |-> NoDoc]

\* load_last_commits lets every exception through but FileNotFoundError and
\* json.JSONDecodeError
LoadRaises == file.state \in {"unreadable", "undecodable"}

\* load_last_commits returns whatever json.load gave: a list for "[]", on
\* which last_commits[repo_key] = {} then raises TypeError
LoadNotMapping == file.state = "array"

\* load_last_commits: {} on FileNotFoundError and on JSONDecodeError
load_last_commits ==
  IF file.state = "json" THEN JsonLoad(file.doc) ELSE EmptyDict

\* ------------------------------------------------------------- delta

\* monitor_feed: the position of last_commit_id in commits, 0 for None
RECURSIVE IndexOf(_, _, _)
IndexOf(cs, last_commit_id, i) ==
  IF i > Len(cs) THEN 0
  ELSE IF cs[i] = last_commit_id THEN i
  ELSE IndexOf(cs, last_commit_id, i + 1)

\* a slip: the new commits stay newest first
ComputeNewUnreversed(cs, branch_name, cursors) ==
  IF branch_name \notin DOMAIN cursors THEN Reverse(cs)
  ELSE
    LET index == IndexOf(cs, cursors[branch_name], 1)
    IN IF index = 0 THEN Reverse(cs)
       ELSE SubSeq(cs, 1, index - 1)

\* a slip: a cursor that is not in the list gives no new commits
ComputeNewNothingOnMiss(cs, branch_name, cursors) ==
  IF branch_name \notin DOMAIN cursors THEN Reverse(cs)
  ELSE
    LET index == IndexOf(cs, cursors[branch_name], 1)
    IN IF index = 0 THEN <<>>
       ELSE Reverse(SubSeq(cs, 1, index - 1))

\* a slip: a branch without cursor gives its newest commit only
ComputeNewNewestOnly(cs, branch_name, cursors) ==
  IF branch_name \notin DOMAIN cursors THEN <<cs[1]>>
  ELSE
    LET index == IndexOf(cs, cursors[branch_name], 1)
    IN IF index = 0 THEN Reverse(cs)
       ELSE Reverse(SubSeq(cs, 1, index - 1))

\* monitor_feed: new_commits from the fetched list and the repository's cursors
ComputeNew(cs, branch_name, cursors) ==
  IF branch_name \notin DOMAIN cursors THEN Reverse(cs)
  ELSE
    LET index == IndexOf(cs, cursors[branch_name], 1)
    IN IF index = 0 THEN Reverse(cs)
       ELSE Reverse(SubSeq(cs, 1, index - 1))

\* ------------------------------------------------------------- state

vars ==
  <<remote, file, BRANCH_BLACKLIST, pc, shutdown_event, last_commits,
    updated, ri, branches, bi, commits, new_commits, response, sleep_left,
    restarts, acked, twice, window, cold_quiet, init_clean, high, call>>

env == <<remote>>
observer == <<acked, twice, window, cold_quiet, init_clean, high>>
locals == <<updated, ri, branches, bi, commits, new_commits, response, sleep_left>>

repo_key == REPOSITORIES[ri]
branch_name == branches[bi]

\* monitor_feed: blacklist_patterns = parse_blacklist_patterns(BRANCH_BLACKLIST)
Parsed ==
  [c \in BlacklistConfigs \cup BlacklistTried |-> parse_blacklist_patterns(c)]

blacklist_patterns == Parsed[BRANCH_BLACKLIST]

Alive == pc \notin {"dead", "done"}

PerBranch(v) == [r \in RepoKeys |-> [b \in BranchNames |-> v]]

\* the cursor ids of mapping d, per branch, 0 where it has none
HighOf(d) ==
  [r \in RepoKeys |-> [b \in BranchNames |->
     IF r \in DOMAIN d /\ b \in DOMAIN d[r] THEN d[r][b] ELSE 0]]

\* no call of request_with_retry is being looked at
NoCall == [outs |-> <<>>, attempts |-> 0, sleeps |-> <<>>]

Init ==
  /\ remote = [r \in RepoKeys |-> [b \in BranchNames |->
                 IF b = Main THEN <<1>> ELSE <<>>]]
  /\ file = Missing
  /\ BRANCH_BLACKLIST \in BlacklistConfigs
  /\ pc = "init_load"
  /\ shutdown_event = FALSE
  /\ last_commits = EmptyDict
  /\ updated = FALSE
  /\ ri = 0
  /\ branches = <<>>
  /\ bi = 0
  /\ commits = <<>>
  /\ new_commits = <<>>
  /\ response = None
  /\ sleep_left = 0
  /\ restarts = 0
  /\ acked = PerBranch({})
  /\ twice = PerBranch({})
  /\ window = FALSE
  /\ cold_quiet = {}
  /\ init_clean = {}
  /\ high = HighOf(load_last_commits)
  /\ call = NoCall

\* ------------------------------------------------------------- process

ResetLocals ==
  /\ updated' = FALSE
  /\ ri' = 0
  /\ branches' = <<>>
  /\ bi' = 0
  /\ commits' = <<>>
  /\ new_commits' = <<>>
  /\ response' = None
  /\ sleep_left' = 0

Acknowledged == response.status_code = STATUS_NO_CONTENT

\* the process ends without cleaning up: an uncaught exception or a kill
Dies ==
  /\ pc' = "dead"
  /\ last_commits' = EmptyDict
  /\ shutdown_event' = FALSE
  /\ ResetLocals
  /\ window' = (window \/ (pc \in {"update", "save_open", "save_dump"} /\ Acknowledged))
  /\ cold_quiet' = {}
  /\ init_clean' = {}
  /\ UNCHANGED <<env, file, BRANCH_BLACKLIST, call, restarts, acked, twice,
                 high>>

SetCursor(d, r, b, id) == Put(d, r, Put(d[r], b, id))

Served(resp) == resp # None /\ resp.status_code = STATUS_OK

\* initialize_last_commits: last_commits = load_last_commits(); updated = False
InitLoad ==
  /\ pc = "init_load"
  /\ IF LoadRaises \/ LoadNotMapping THEN Dies
     ELSE
       /\ last_commits' = load_last_commits
       /\ updated' = FALSE
       /\ ri' = 1
       /\ pc' = "init_repo"
       /\ cold_quiet' = RepoKeys \ DOMAIN load_last_commits
       /\ init_clean' = RepoKeys \ DOMAIN load_last_commits
       /\ UNCHANGED <<env, file, BRANCH_BLACKLIST, call, shutdown_event,
                      branches, bi, commits, new_commits, response,
                      sleep_left, restarts, acked, twice, window,
                      high>>

\* initialize_last_commits: one turn of "for repo in REPOSITORIES", and its end
InitRepo ==
  /\ pc = "init_repo"
  /\ IF ri > Len(REPOSITORIES) THEN
       /\ pc' = IF updated THEN "init_save_open" ELSE "mon_load"
       /\ ri' = 0
       /\ UNCHANGED <<env, file, BRANCH_BLACKLIST, call, shutdown_event,
                      last_commits, updated, branches, bi, commits,
                      new_commits, response, sleep_left, restarts,
                      observer>>
     ELSE IF repo_key \in DOMAIN last_commits THEN
       /\ ri' = ri + 1
       /\ UNCHANGED <<env, file, BRANCH_BLACKLIST, call, pc, shutdown_event,
                      last_commits, updated, branches, bi, commits,
                      new_commits, response, sleep_left, restarts,
                      observer>>
     ELSE
       \E resp \in GetResults :
         IF JsonRaises(resp) THEN Dies
         ELSE
           /\ last_commits' = Put(last_commits, repo_key, EmptyDict)
           /\ branches' = get_branches(repo_key, resp)
           /\ bi' = 1
           /\ pc' = "init_branch"
           /\ init_clean' = IF Served(resp) THEN init_clean
                            ELSE init_clean \ {repo_key}
           /\ UNCHANGED <<env, file, BRANCH_BLACKLIST, call, shutdown_event,
                          updated, ri, commits, new_commits,
                          response, sleep_left, restarts, acked,
                          twice, window, cold_quiet, high>>

\* initialize_last_commits: one turn of "for branch in branches", and its end
InitBranch ==
  /\ pc = "init_branch"
  /\ IF bi > Len(branches) THEN
       /\ ri' = ri + 1
       /\ branches' = <<>>
       /\ bi' = 0
       /\ pc' = "init_repo"
       /\ UNCHANGED <<env, file, BRANCH_BLACKLIST, call, shutdown_event,
                      last_commits, updated, commits, new_commits,
                      response, sleep_left, restarts, observer>>
     ELSE
       \E resp \in GetResults :
         IF JsonRaises(resp) THEN Dies
         ELSE
           LET cs == get_commits_for_branch(repo_key, branch_name, resp)
           IN /\ IF cs # <<>> THEN
                   /\ last_commits' =
                        SetCursor(last_commits, repo_key, branch_name, cs[1])
                   /\ updated' = TRUE
                 ELSE UNCHANGED <<last_commits, updated>>
              /\ bi' = bi + 1
              /\ init_clean' = IF Served(resp) THEN init_clean
                               ELSE init_clean \ {repo_key}
              /\ UNCHANGED <<env, file, BRANCH_BLACKLIST, call, pc,
                             shutdown_event, ri, branches,
                             commits, new_commits, response,
                             sleep_left, restarts, acked,
                             twice, window, cold_quiet, high>>

\* save_last_commits, first half: open(..., "w") empties the file, or raises
\* OSError when the file cannot be written
SaveOpen(at, then) ==
  /\ pc = at
  /\ \/ /\ file' = Truncated
        /\ pc' = then
        /\ UNCHANGED <<env, BRANCH_BLACKLIST, call, shutdown_event,
                       last_commits, locals, restarts, observer>>
     \/ Dies

\* save_last_commits, second half: json.dump writes the dict
SaveDump(at, then) ==
  /\ pc = at
  /\ file' = Written(last_commits)
  /\ pc' = then
  /\ high' = [r \in RepoKeys |-> [b \in BranchNames |->
                IF HighOf(last_commits)[r][b] > high[r][b]
                THEN HighOf(last_commits)[r][b] ELSE high[r][b]]]
  /\ UNCHANGED <<env, BRANCH_BLACKLIST, call, shutdown_event, last_commits,
                 locals, restarts, acked, twice, window, cold_quiet,
                 init_clean>>

InitSave ==
  \/ SaveOpen("init_save_open", "init_save_dump")
  \/ SaveDump("init_save_dump", "mon_load")

\* monitor_feed: last_commits = load_last_commits()
MonitorLoad ==
  /\ pc = "mon_load"
  /\ IF LoadRaises \/ LoadNotMapping THEN Dies
     ELSE
       /\ last_commits' = load_last_commits
       /\ updated' = FALSE
       /\ pc' = "while"
       /\ UNCHANGED <<env, file, BRANCH_BLACKLIST, call, shutdown_event, ri,
                      branches, bi, commits, new_commits, response,
                      sleep_left, restarts, observer>>

\* monitor_feed: while not shutdown_event.is_set()
WhileTest ==
  /\ pc = "while"
  /\ IF shutdown_event THEN pc' = "final_save_open" /\ ri' = 0
     ELSE pc' = "repo" /\ ri' = 1
  /\ UNCHANGED <<env, file, BRANCH_BLACKLIST, call, shutdown_event,
                 last_commits, updated, branches, bi, commits,
                 new_commits, response, sleep_left, restarts, observer>>

\* monitor_feed: one turn of "for repo in REPOSITORIES" up to get_branches;
\* after the last one, time.sleep(POLL_INTERVAL_SECONDS) begins
RepoTop ==
  /\ pc = "repo"
  /\ IF ri > Len(REPOSITORIES) THEN
       /\ pc' = "sleep"
       /\ sleep_left' = SleepTicks
       /\ ri' = 0
       /\ cold_quiet' = {}
       /\ init_clean' = {}
       /\ UNCHANGED <<env, file, BRANCH_BLACKLIST, call, shutdown_event,
                      last_commits, updated, branches, bi, commits,
                      new_commits, response, restarts, acked, twice,
                      window, high>>
     ELSE
       \E resp \in GetResults :
         IF JsonRaises(resp) THEN Dies
         ELSE
           /\ last_commits' = IF repo_key \in DOMAIN last_commits
                              THEN last_commits
                              ELSE Put(last_commits, repo_key, EmptyDict)
           /\ branches' = get_branches(repo_key, resp)
           /\ bi' = 1
           /\ pc' = "branch"
           /\ UNCHANGED <<env, file, BRANCH_BLACKLIST, call, shutdown_event,
                          updated, ri, commits, new_commits,
                          response, sleep_left, restarts,
                          observer>>

\* monitor_feed: one turn of "for branch in branches" up to the blacklist test
BranchTop ==
  /\ pc = "branch"
  /\ IF bi > Len(branches) THEN
       /\ ri' = ri + 1
       /\ branches' = <<>>
       /\ bi' = 0
       /\ pc' = "repo"
     ELSE
       /\ pc' = IF is_branch_blacklisted(repo_key, branch_name, blacklist_patterns)
                THEN "next" ELSE "fetch"
       /\ UNCHANGED <<ri, branches, bi>>
  /\ UNCHANGED <<env, file, BRANCH_BLACKLIST, call, shutdown_event,
                 last_commits, updated, commits, new_commits, response,
                 sleep_left, restarts, observer>>

\* a slip: an empty list makes the loop forget the cursor of the branch
FetchForgetsOnEmpty ==
  /\ pc = "fetch"
  /\ \E resp \in GetResults :
       IF JsonRaises(resp) THEN Dies
       ELSE
         /\ commits' = get_commits_for_branch(repo_key, branch_name, resp)
         /\ pc' = IF commits' = <<>> THEN "next" ELSE "delta"
         /\ last_commits' =
              IF commits' = <<>>
              THEN [last_commits EXCEPT ![repo_key] =
                      [b \in DOMAIN @ \ {branch_name} |-> @[b]]]
              ELSE last_commits
         /\ UNCHANGED <<env, file, BRANCH_BLACKLIST, call, shutdown_event,
                        updated, ri, branches, bi,
                        new_commits, response, sleep_left,
                        restarts, observer>>

\* monitor_feed: commits = get_commits_for_branch(...); if not commits: continue
Fetch ==
  /\ pc = "fetch"
  /\ \E resp \in GetResults :
       IF JsonRaises(resp) THEN Dies
       ELSE
         /\ commits' = get_commits_for_branch(repo_key, branch_name, resp)
         /\ pc' = IF commits' = <<>> THEN "next" ELSE "delta"
         /\ UNCHANGED <<env, file, BRANCH_BLACKLIST, call, shutdown_event,
                        last_commits, updated, ri, branches, bi,
                        new_commits, response, sleep_left,
                        restarts, observer>>

\* monitor_feed: new_commits from commits and the cursor; if new_commits:
Delta ==
  /\ pc = "delta"
  /\ new_commits' = ComputeNew(commits, branch_name, last_commits[repo_key])
  /\ pc' = IF new_commits' # <<>> THEN "send" ELSE "next"
  /\ UNCHANGED <<env, file, BRANCH_BLACKLIST, call, shutdown_event,
                 last_commits, updated, ri, branches, bi, commits,
                 response, sleep_left, restarts, observer>>

\* send_aggregated_to_discord: one message with all of new_commits; nothing
\* is returned to the caller
Send ==
  /\ pc = "send"
  /\ \E resp \in PostResults :
       /\ response' = resp
       /\ IF resp.status_code = STATUS_NO_CONTENT THEN
            /\ acked' = [acked EXCEPT ![repo_key][branch_name] =
                           @ \cup Range(new_commits)]
            /\ twice' = [twice EXCEPT ![repo_key][branch_name] =
                           @ \cup (acked[repo_key][branch_name] \cap Range(new_commits))]
          ELSE UNCHANGED <<acked, twice>>
  /\ pc' = "update"
  /\ UNCHANGED <<env, file, BRANCH_BLACKLIST, call, shutdown_event,
                 last_commits, updated, ri, branches, bi, commits,
                 new_commits, sleep_left, restarts, window, cold_quiet,
                 init_clean, high>>

\* a slip: the cursor goes to the oldest new commit, new_commits[0]
UpdateOldest ==
  /\ pc = "update"
  /\ last_commits' = SetCursor(last_commits, repo_key, branch_name, new_commits[1])
  /\ pc' = "save_open"
  /\ UNCHANGED <<env, file, BRANCH_BLACKLIST, call, shutdown_event, locals,
                 restarts, observer>>

\* a slip: the cursor goes to the oldest fetched commit, commits[-1]
UpdateOldestFetched ==
  /\ pc = "update"
  /\ last_commits' = SetCursor(last_commits, repo_key, branch_name, commits[Len(commits)])
  /\ pc' = "save_open"
  /\ UNCHANGED <<env, file, BRANCH_BLACKLIST, call, shutdown_event, locals,
                 restarts, observer>>

\* monitor_feed: last_commits[repo_key][branch_name] = new_commits[-1]["id"]
Update ==
  /\ pc = "update"
  /\ last_commits' = SetCursor(last_commits, repo_key, branch_name,
                               new_commits[Len(new_commits)])
  /\ pc' = "save_open"
  /\ UNCHANGED <<env, file, BRANCH_BLACKLIST, call, shutdown_event, locals,
                 restarts, observer>>

BranchSave ==
  \/ SaveOpen("save_open", "save_dump")
  \/ SaveDump("save_dump", "next")

\* monitor_feed: the end of one turn of "for branch in branches"
NextBranch ==
  /\ pc = "next"
  /\ bi' = bi + 1
  /\ commits' = <<>>
  /\ new_commits' = <<>>
  /\ response' = None
  /\ pc' = "branch"
  /\ UNCHANGED <<env, file, BRANCH_BLACKLIST, call, shutdown_event,
                 last_commits, updated, ri, branches, sleep_left,
                 restarts, observer>>

\* time.sleep: a signal handler that returns does not end it
Tick ==
  /\ pc = "sleep"
  /\ sleep_left > 0
  /\ sleep_left' = sleep_left - 1
  /\ UNCHANGED <<env, file, BRANCH_BLACKLIST, call, pc, shutdown_event,
                 last_commits, updated, ri, branches, bi, commits,
                 new_commits, response, restarts, observer>>

Wake ==
  /\ pc = "sleep"
  /\ sleep_left = 0
  /\ pc' = "while"
  /\ UNCHANGED <<env, file, BRANCH_BLACKLIST, call, shutdown_event,
                 last_commits, locals, restarts, observer>>

\* monitor_feed: save_last_commits(last_commits) after the loop
FinalSave ==
  \/ SaveOpen("final_save_open", "final_save_dump")
  \/ SaveDump("final_save_dump", "done")

\* handle_shutdown: SIGTERM or SIGINT sets the event
HandleShutdown ==
  /\ Alive
  /\ ~shutdown_event
  /\ shutdown_event' = TRUE
  /\ UNCHANGED <<env, file, BRANCH_BLACKLIST, call, pc, last_commits, locals,
                 restarts, observer>>

\* the process is killed where it is
Crash ==
  /\ Alive
  /\ Dies

\* the process is started again
Restart ==
  /\ ~Alive
  /\ restarts < MaxRestarts
  /\ restarts' = restarts + 1
  /\ pc' = "init_load"
  /\ shutdown_event' = FALSE
  /\ last_commits' = EmptyDict
  /\ ResetLocals
  /\ UNCHANGED <<env, file, BRANCH_BLACKLIST, call, observer>>

\* ------------------------------------------------------------- source

Settle(r) ==
  /\ cold_quiet' = cold_quiet \ {r}
  /\ init_clean' = init_clean \ {r}

\* the ids a branch has handed out: its newest commit carries the largest
Issued(r, b) == IF remote[r][b] = <<>> THEN 0 ELSE remote[r][b][1]

\* the changes made so far: every one hands out one id, and Init has two
Changes ==
  Issued(RepoA, Main) + Issued(RepoA, Rel) + Issued(RepoC, Main)
    + Issued(RepoC, Rel) - 2

\* a commit is pushed to a branch
Push(r, b) ==
  /\ remote[r][b] # <<>>
  /\ remote' = [remote EXCEPT ![r][b] = <<Issued(r, b) + 1>> \o @]
  /\ Settle(r)
  /\ UNCHANGED <<file, BRANCH_BLACKLIST, call, pc, shutdown_event,
                 last_commits, locals, restarts, acked, twice, window,
                 high>>

\* a branch is created
CreateBranch(r, b) ==
  /\ remote[r][b] = <<>>
  /\ remote' = [remote EXCEPT ![r][b] = <<1>>]
  /\ Settle(r)
  /\ UNCHANGED <<file, BRANCH_BLACKLIST, call, pc, shutdown_event,
                 last_commits, locals, restarts, acked, twice, window,
                 high>>

\* a branch is force-pushed: its newest k commits give way to a new one
ForcePush(r, b) ==
  /\ remote[r][b] # <<>>
  /\ \E k \in 1..Len(remote[r][b]) :
       remote' = [remote EXCEPT ![r][b] =
                    <<Issued(r, b) + 1>> \o SubSeq(@, k + 1, Len(@))]
  /\ Settle(r)
  /\ UNCHANGED <<file, BRANCH_BLACKLIST, call, pc, shutdown_event,
                 last_commits, locals, restarts, acked, twice, window,
                 high>>

Source ==
  /\ Changes < MaxChanges
  /\ \E r \in RepoKeys, b \in BranchNames :
       \/ Push(r, b)
       \/ CreateBranch(r, b)
       \/ ForcePush(r, b)

Next ==
  \/ InitLoad
  \/ InitRepo
  \/ InitBranch
  \/ InitSave
  \/ MonitorLoad
  \/ WhileTest
  \/ RepoTop
  \/ BranchTop
  \/ Fetch
  \/ Delta
  \/ Send
  \/ Update
  \/ BranchSave
  \/ NextBranch
  \/ Tick
  \/ Wake
  \/ FinalSave
  \/ HandleShutdown
  \/ Source

\* one life of the process
Spec == Init /\ [][Next]_vars

\* the steps of the process itself
Process ==
  \/ InitLoad
  \/ InitRepo
  \/ InitBranch
  \/ InitSave
  \/ MonitorLoad
  \/ WhileTest
  \/ RepoTop
  \/ BranchTop
  \/ Fetch
  \/ Delta
  \/ Send
  \/ Update
  \/ BranchSave
  \/ NextBranch
  \/ Tick
  \/ Wake
  \/ FinalSave

\* one life of a process that is never held up: every call returns and the
\* interpreter goes on to the next statement
SpecLive == Init /\ [][Next]_vars /\ WF_vars(Process)

NextCrash ==
  \/ Next
  \/ Crash
  \/ Restart

InitCrash ==
  /\ Init
  /\ BRANCH_BLACKLIST = <<"r", "*">>

\* the process is killed and started again, under one blacklist
SpecCrash == InitCrash /\ [][NextCrash]_vars

\* ------------------------------------------------------------- delta alone

DeltaIds == 1..MaxDeltaId

\* fetched lists: commit ids, newest first, no id twice
FetchedLists ==
  {cs \in UNION {[1..n -> DeltaIds] : n \in 1..MaxDeltaLen} :
     \A i, j \in 1..Len(cs) : cs[i] = cs[j] => i = j}

\* the cursors of a repository: none for the branch, or any id (0 is an id
\* no list holds)
CursorsTried ==
  {EmptyDict} \cup {Put(EmptyDict, Main, c) : c \in 0..MaxDeltaId}

InitDelta ==
  /\ remote = [r \in RepoKeys |-> [b \in BranchNames |->
                 IF b = Main THEN <<1>> ELSE <<>>]]
  /\ file = Missing
  /\ BRANCH_BLACKLIST = <<>>
  /\ pc = "delta"
  /\ shutdown_event = FALSE
  /\ \E cur \in CursorsTried : last_commits = Put(EmptyDict, RepoA, cur)
  /\ updated = FALSE
  /\ ri = 1
  /\ branches = <<Main>>
  /\ bi = 1
  /\ commits \in FetchedLists
  /\ new_commits = <<>>
  /\ response = None
  /\ sleep_left = 0
  /\ restarts = 0
  /\ acked = PerBranch({})
  /\ twice = PerBranch({})
  /\ window = FALSE
  /\ cold_quiet = {}
  /\ init_clean = {}
  /\ high = HighOf(load_last_commits)
  /\ call = NoCall

\* the delta step of monitor_feed on every fetched list and cursor
SpecDelta == InitDelta /\ [][Delta]_vars

\* ------------------------------------------------------------- filter alone

InitBlacklist ==
  /\ remote = [r \in RepoKeys |-> [b \in BranchNames |->
                 IF b = Main THEN <<1>> ELSE <<>>]]
  /\ file = Missing
  /\ BRANCH_BLACKLIST \in BlacklistTried
  /\ pc = "branch"
  /\ shutdown_event = FALSE
  /\ last_commits = [r \in RepoKeys |-> EmptyDict]
  /\ updated = FALSE
  /\ ri \in 1..Len(REPOSITORIES)
  /\ \E b \in BranchesTried : branches = <<b>>
  /\ bi = 1
  /\ commits = <<>>
  /\ new_commits = <<>>
  /\ response = None
  /\ sleep_left = 0
  /\ restarts = 0
  /\ acked = PerBranch({})
  /\ twice = PerBranch({})
  /\ window = FALSE
  /\ cold_quiet = {}
  /\ init_clean = {}
  /\ high = HighOf(load_last_commits)
  /\ call = NoCall

\* the blacklist test of monitor_feed on every configuration, repository and
\* branch name tried
SpecBlacklist == InitBlacklist /\ [][BranchTop]_vars

\* ------------------------------------------------------------- load alone

\* the cursors one repository can have on file
StoredBranches ==
  UNION {[bs -> 1..MaxStoredId] : bs \in SUBSET BranchNames}

\* the mappings a cursor file can hold
StoredMappings ==
  UNION {[rs -> StoredBranches] : rs \in SUBSET RepoKeys}

\* what the process can find in the place of last_commits.json
FilesTried ==
  {Missing, Truncated, Unreadable, Undecodable, JsonArray}
    \cup {Written(d) : d \in StoredMappings}

InitFile ==
  /\ remote = [r \in RepoKeys |-> [b \in BranchNames |->
                 IF b = Main THEN <<1>> ELSE <<>>]]
  /\ file \in FilesTried
  /\ BRANCH_BLACKLIST = <<>>
  /\ pc = "init_load"
  /\ shutdown_event = FALSE
  /\ last_commits = EmptyDict
  /\ updated = FALSE
  /\ ri = 0
  /\ branches = <<>>
  /\ bi = 0
  /\ commits = <<>>
  /\ new_commits = <<>>
  /\ response = None
  /\ sleep_left = 0
  /\ restarts = 0
  /\ acked = PerBranch({})
  /\ twice = PerBranch({})
  /\ window = FALSE
  /\ cold_quiet = {}
  /\ init_clean = {}
  /\ high = HighOf(load_last_commits)
  /\ call = NoCall

\* the load at process start on every file tried
SpecLoad == InitFile /\ [][InitLoad]_vars

\* ------------------------------------------------------------- retry alone

\* what the transport can do on one attempt of a GET or a POST
Outcomes == GetOutcomes \cup PostOutcomes

\* one call of request_with_retry: the result, and what it took
Request ==
  /\ pc = "request"
  /\ LET r == request_with_retry(call.outs)
     IN /\ response' = r.response
        /\ call' = [call EXCEPT !.attempts = r.attempts, !.sleeps = r.sleeps]
  /\ pc' = "requested"
  /\ UNCHANGED <<env, file, BRANCH_BLACKLIST, shutdown_event, last_commits,
                 updated, ri, branches, bi, commits, new_commits, sleep_left,
                 restarts, observer>>

InitRetry ==
  /\ remote = [r \in RepoKeys |-> [b \in BranchNames |->
                 IF b = Main THEN <<1>> ELSE <<>>]]
  /\ file = Missing
  /\ BRANCH_BLACKLIST = <<>>
  /\ pc = "request"
  /\ shutdown_event = FALSE
  /\ last_commits = EmptyDict
  /\ updated = FALSE
  /\ ri = 0
  /\ branches = <<>>
  /\ bi = 0
  /\ commits = <<>>
  /\ new_commits = <<>>
  /\ response = None
  /\ sleep_left = 0
  /\ restarts = 0
  /\ acked = PerBranch({})
  /\ twice = PerBranch({})
  /\ window = FALSE
  /\ cold_quiet = {}
  /\ init_clean = {}
  /\ high = PerBranch(0)
  /\ \E o \in [1..MAX_RETRIES -> Outcomes] :
       call = [outs |-> o, attempts |-> 0, sleeps |-> <<>>]

\* request_with_retry on every behaviour of the transport
SpecRetry == InitRetry /\ [][Request]_vars

\* ------------------------------------------------------------- claims

\* the cursor of the branch in hand, 0 when it has none
Cursor == IF branch_name \in DOMAIN last_commits[repo_key]
          THEN last_commits[repo_key][branch_name] ELSE 0

HasCursor == branch_name \in DOMAIN last_commits[repo_key]

\* the delta of the branch in hand has been computed and nothing was done
\* with it yet
DeltaDone ==
  \/ pc = "send"
  \/ pc = "next" /\ commits # <<>> /\ new_commits = <<>>

\* the patterns that apply to a branch of repository r: the global ones and
\* those registered for r
Applies(r, b) ==
  \E k \in {GLOBAL, r} \cap DOMAIN blacklist_patterns :
    \E i \in 1..Len(blacklist_patterns[k]) : fnmatch(b, blacklist_patterns[k][i])

\* the history of a branch was only appended to: ids 1, 2, ... with no gap
AppendOnly(r, b) ==
  \A i \in 1..Len(remote[r][b]) : remote[r][b][i] = Len(remote[r][b]) + 1 - i

\* C1: in POLLING the cursor of a branch, in memory and on file, moves only
\* when the sink acknowledged the message with 204; after any other outcome
\* of the dispatch both are what they were before the branch was processed.
C1_CursorOnlyOnSuccess ==
  [][(/\ pc \in {"update", "save_open", "save_dump"}
      /\ pc' \in {"save_open", "save_dump", "next"}
      /\ ~Acknowledged)
     => (last_commits' = last_commits /\ file' = file)]_vars

\* C2: no commit is lost: when a branch has been processed, every commit of
\* its delta was acknowledged by the sink or is again in the delta that the
\* same fetched list gives against the cursor as it is now.
C2_NoLostCommit ==
  (pc = "next" /\ new_commits # <<>>) =>
    \A c \in Range(new_commits) :
      \/ c \in acked[repo_key][branch_name]
      \/ c \in Range(ComputeNew(commits, branch_name, last_commits[repo_key]))

\* C3: cold start: for a repository without persisted cursor at process
\* start whose branches did not change since, no message is dispatched
\* during initialization and the first pass, whatever the source calls of
\* the initialization returned; and when they all succeeded, at the end of
\* the initialization every included branch has its newest commit as cursor.
C3_ColdStartSilent ==
  /\ pc = "send" => repo_key \notin cold_quiet
  /\ pc = "mon_load" =>
       \A r \in init_clean : \A b \in BranchNames :
         (remote[r][b] # <<>> /\ ~Applies(r, b)) =>
           (b \in DOMAIN last_commits[r] /\ last_commits[r][b] = remote[r][b][1])

\* C4: without a crash between an acknowledged dispatch and the end of the
\* save that follows it, no commit of a branch whose history was only
\* appended to is in more than one acknowledged message.
C4_NoDuplicate ==
  ~window =>
    \A r \in RepoKeys, b \in BranchNames : AppendOnly(r, b) => twice[r][b] = {}

\* C5: once the shutdown flag is set in a poll cycle, the loop asks for no
\* further branch list and fetches no further branch: the flag is looked at
\* at the top of each repository iteration.
C5_ShutdownStopsCycle ==
  [][/\ (shutdown_event /\ pc = "repo") => pc' # "branch"
     /\ (shutdown_event /\ pc = "branch") => pc' # "fetch"]_vars

\* C6: once the shutdown flag is set during the sleep, the loop waits out no
\* more of the poll interval, and it starts no other poll cycle.
C6_SleepEndsOnShutdown ==
  [][(shutdown_event /\ pc = "sleep") =>
       (sleep_left' = sleep_left /\ pc' # "repo")]_vars

\* C7: with the cursor at position i of the fetched list, the delta is the
\* entries before position i, oldest first (empty for i = 1, the newest).
C7_DeltaIsReversedPrefix ==
  (DeltaDone /\ HasCursor /\ Cursor \in Range(commits)) =>
    LET i == CHOOSE j \in 1..Len(commits) : commits[j] = Cursor
    IN /\ Len(new_commits) = i - 1
       /\ \A k \in 1..(i - 1) : new_commits[k] = commits[i - k]

\* cursor c1 with fetched [c5,c4,c3,c2,c1] has given [c2,c3,c4,c5]
C7_Witness ==
  /\ pc = "send"
  /\ Cursor = 1
  /\ commits = <<5, 4, 3, 2, 1>>
  /\ new_commits = <<2, 3, 4, 5>>

\* C8: with a cursor that is nowhere in the fetched list, the delta is the
\* whole fetched list, oldest first, and the loop goes on to dispatch it.
C8_ForcePushGivesAll ==
  (DeltaDone /\ HasCursor /\ Cursor \notin Range(commits)) =>
    /\ pc = "send"
    /\ Len(new_commits) = Len(commits)
    /\ \A k \in 1..Len(commits) : new_commits[k] = commits[Len(commits) + 1 - k]

\* cursor zzz with fetched [c7,c6] has given [c6,c7]
C8_Witness ==
  /\ pc = "send"
  /\ HasCursor
  /\ Cursor = 0
  /\ commits = <<7, 6>>
  /\ new_commits = <<6, 7>>

\* C9: when a branch has been processed with a fetched list that is not
\* empty, its cursor is the newest fetched commit, whatever the delta was.
C9_CursorIsNewest ==
  (pc = "next" /\ commits # <<>>) => (HasCursor /\ Cursor = commits[1])

\* a branch has been processed whose delta was a proper part of the list
C9_Witness ==
  /\ pc = "next"
  /\ new_commits # <<>>
  /\ Len(new_commits) < Len(commits)
  /\ Cursor = commits[1]

\* C10: the polling loop fetches nothing, computes no delta, sends nothing
\* and writes no cursor for a branch that a global pattern or a pattern of
\* its repository matches.
C10_BlacklistedUntouched ==
  pc \in {"fetch", "delta", "send", "update", "save_open", "save_dump"} =>
    ~Applies(repo_key, branch_name)

\* a blacklisted branch has just been skipped
C10_Witness ==
  /\ pc = "next"
  /\ Applies(repo_key, branch_name)
  /\ commits = <<>>

\* branch b matches one of the patterns that dictionary d holds under key k
Matches(b, d, k) ==
  k \in DOMAIN d /\ \E i \in 1..Len(d[k]) : fnmatch(b, d[k][i])

\* dictionary d without key k
Without(d, k) == [x \in DOMAIN d \ {k} |-> d[x]]

\* C11: is_branch_blacklisted is true exactly when the branch name matches a
\* global pattern or a pattern registered for the repository; a global match
\* excludes the branch for every repository; patterns registered for another
\* repository never change the result.
C11_BlacklistedIffMatch ==
  pc \in {"next", "fetch"} =>
    LET d == blacklist_patterns
        result == is_branch_blacklisted(repo_key, branch_name, d)
    IN /\ (pc = "next") = result
       /\ result = (Matches(branch_name, d, GLOBAL) \/ Matches(branch_name, d, repo_key))
       /\ Matches(branch_name, d, GLOBAL) =>
            \A r \in RepoKeys : is_branch_blacklisted(r, branch_name, d)
       /\ \A other \in DOMAIN d \ {GLOBAL, repo_key} :
            is_branch_blacklisted(repo_key, branch_name, Without(d, other)) = result

\* a branch was let through although a pattern of another repository matches
C11_Witness ==
  /\ pc = "fetch"
  /\ \E other \in DOMAIN blacklist_patterns \ {GLOBAL, repo_key} :
       Matches(branch_name, blacklist_patterns, other)

\* C12: a save that cannot write the state file does not end the process:
\* the loop goes on to the next branch with the cursor it had set in memory.
C12_SaveFailureNotFatal ==
  [][(pc = "save_open" /\ pc' \notin {"save_open", "save_dump"})
     => (pc' = "next" /\ last_commits' = last_commits)]_vars

\* C13: at every step of a save, what load returns from the file is the
\* mapping from before the step or the mapping being saved, never an empty
\* or partial one.
C13_SaveIsAtomic ==
  [][(pc \in {"init_save_open", "init_save_dump", "save_open", "save_dump",
              "final_save_open", "final_save_dump"})
     => (load_last_commits' \in {load_last_commits, last_commits})]_vars

\* C14: whatever is in the place of the state file, the load ends with a
\* mapping and the process alive; the mapping is empty unless the file holds
\* a cursor mapping.
C14_LoadNeverFails ==
  pc # "init_load" =>
    /\ pc = "init_repo"
    /\ file.state # "json" => last_commits = EmptyDict

\* C15: for a branch whose history was only appended to, the cursor on file
\* and the cursor in memory are never older than a cursor the file has held,
\* across poll cycles, dispatch outcomes, crashes and restarts.
C15_CursorMonotonic ==
  \A r \in RepoKeys, b \in BranchNames :
    AppendOnly(r, b) =>
      /\ HighOf(load_last_commits)[r][b] # 0 =>
           HighOf(load_last_commits)[r][b] >= high[r][b]
      /\ HighOf(last_commits)[r][b] # 0 =>
           HighOf(last_commits)[r][b] >= high[r][b]

\* after a restart a branch went from one saved cursor to a newer one
C15_Witness ==
  /\ restarts > 0
  /\ pc = "next"
  /\ new_commits # <<>>
  /\ AppendOnly(repo_key, branch_name)
  /\ Cursor >= 2
  /\ high[repo_key][branch_name] = Cursor

\* C16: a branch-list or commit-list call of the polling loop that fails
\* does not end the process: the loop goes on with an empty result.
C16_FailureIsolated ==
  [][(pc \in {"repo", "fetch"}) => (pc' # "dead")]_vars

\* C17: a call of request_with_retry makes at most three attempts, a further
\* one only after a connection or timeout failure, sleeping 1 s and then 2 s
\* between attempts and not after the last; it returns the first response it
\* gets, and nothing after the third failure or after any other failure.
C17_BoundedRetry ==
  pc = "requested" =>
    LET n == call.attempts
        last == call.outs[n]
    IN /\ n \in 1..3
       /\ \A k \in 1..(n - 1) : call.outs[k].exc \in {"ConnectionError", "Timeout"}
       /\ call.sleeps = SubSeq(<<1, 2>>, 1, n - 1)
       /\ last.exc = "" => response = last
       /\ last.exc # "" => response = None
       /\ last.exc \in {"ConnectionError", "Timeout"} => n = 3

\* three attempts failed on the connection: two sleeps, no result
C17_Witness ==
  /\ pc = "requested"
  /\ call.attempts = 3
  /\ call.sleeps = <<1, 2>>
  /\ call.outs[3].exc = "Timeout"
  /\ response = None

\* C18: initialization creates no cursor for a branch the filter excludes
\* (no cursor exists before it in the first life of the process).
C18_InitSeedsIncludedOnly ==
  pc \in {"init_repo", "init_branch", "init_save_open", "init_save_dump",
           "mon_load"} =>
    \A r \in DOMAIN last_commits : \A b \in DOMAIN last_commits[r] :
      ~Applies(r, b)

\* C19: once the shutdown signal was delivered the loop reaches SHUT_DOWN,
\* and there the file holds the cursors of the memory.
C19_ShutdownTerminates ==
  /\ shutdown_event ~> (pc = "done")
  /\ [](pc = "done" => file = Written(last_commits))

\* C20: a branch found without cursor in POLLING, with a fetched list that is
\* not empty, has all fetched commits dispatched, oldest first, in the one
\* message of the branch.
C20_NewBranchReportsAll ==
  /\ (pc = "send" /\ ~HasCursor) =>
       (commits # <<>> /\ new_commits = Reverse(commits))
  /\ (pc = "update" /\ ~HasCursor /\ Acknowledged) =>
       Range(commits) \subseteq acked[repo_key][branch_name]

\* the two commits of a branch created after the start were acknowledged
C20_Witness ==
  /\ pc = "update"
  /\ ~HasCursor
  /\ Acknowledged
  /\ branch_name = Rel
  /\ commits = <<2, 1>>
  /\ new_commits = <<1, 2>>
  /\ acked[repo_key][Rel] = {1, 2}

\* C21: a fetch of the polling loop that comes back empty sends nothing and
\* leaves every cursor, in memory and on file, as it was: the loop goes on to
\* the next branch.
C21_EmptyFetchUntouched ==
  [][(pc = "fetch" /\ pc' \notin {"fetch", "dead"} /\ commits' = <<>>)
     => (/\ pc' = "next"
         /\ last_commits' = last_commits
         /\ file' = file
         /\ acked' = acked)]_vars

\* the fetch of a branch with new commits came back empty, and the cursor
\* from before is still there
C21_Witness ==
  /\ pc = "next"
  /\ commits = <<>>
  /\ ~Applies(repo_key, branch_name)
  /\ remote[repo_key][branch_name] # <<>>
  /\ HasCursor
  /\ Cursor # remote[repo_key][branch_name][1]
  /\ HighOf(load_last_commits)[repo_key][branch_name] = Cursor

====
